---- MODULE Spec2Model ----
(***************************************************************************)
(* A model of two files of the repository:                                  *)
(*   tensorforce/core/distributions/categorical.py  (class Categorical)     *)
(*   examples/unity.py                              (main)                  *)
(*                                                                          *)
(* SpecCategorical drives one Categorical distribution object through its   *)
(* tf_* methods; SpecUnity drives main() of the example script.             *)
(*                                                                          *)
(* Numbers.  The tensors of categorical.py hold floats.  The model computes *)
(* with exact values instead of rounded ones: a finite value is             *)
(*      c + SUM coef_i * ln(q_i)                                            *)
(* with c, coef_i and q_i rationals, so exp, log, softmax and the sums the  *)
(* code takes are computed, not assumed.  The float behaviour the code      *)
(* relies on is kept: log(0) = -inf, inf - inf = nan, 0 * inf = nan,        *)
(* and float.min (about -3.4e38) absorbs every ordinary addend and makes    *)
(* exp underflow to exactly 0.  Rounding of ordinary values is not          *)
(* modelled.                                                                *)
(***************************************************************************)
EXTENDS Integers, Sequences, FiniteSets, TLC

VARIABLES
    \* ---- Categorical -----------------------------------------------------
    infer_states_value, \* constructor argument: self.value is None
    x,                  \* outputs of the linear layers for the latest embedding
    mask,               \* mask given to the latest tf_parametrize
    parameters,         \* latest (logits, probabilities, states_value, action_values)
    op,                 \* the method that ran last
    args,               \* its arguments
    result,             \* what it returned
    \* ---- examples/unity.py ------------------------------------------------
    pc,                 \* position in main()
    cli,                \* parsed command line (args of main)
    error,              \* message of the exception that ended main, or ""
    network_spec,       \* local of main
    calls,              \* constructors and methods main has called, in order
    runner,             \* the Runner object r: episode, episode_rewards
    agent_kwargs,       \* kwargs main gave Agent.from_spec
    environment,        \* what an episode of the environment yields
    logged,             \* what episode_finished logged last
    state,              \* local of main: latest environment state
    terminal,           \* local of main
    acted_on            \* the state agent.act was last called on

catVars == <<infer_states_value, x, mask, parameters, op, args, result>>
unityVars == <<pc, cli, error, network_spec, calls, agent_kwargs, runner, environment,
               logged, state, terminal, acted_on>>
vars == <<infer_states_value, x, mask, parameters, op, args, result,
          pc, cli, error, network_spec, calls, agent_kwargs, runner, environment,
          logged, state, terminal, acted_on>>

----------------------------------------------------------------------------
(* Rationals <<n, d>> in lowest terms, d > 0.                               *)

Abs(n) == IF n < 0 THEN -n ELSE n

RECURSIVE GCD(_, _)
GCD(a, b) == IF b = 0 THEN a ELSE GCD(b, a % b)

Rat(n, d) == LET g == GCD(Abs(n), d) IN <<n \div g, d \div g>>

RatZero == <<0, 1>>

RatOne == <<1, 1>>

RatNeg(r) == <<-r[1], r[2]>>

RatAdd(r, s) ==
    LET g == GCD(r[2], s[2])
        l == (r[2] \div g) * s[2]
    IN  Rat(r[1] * (l \div r[2]) + s[1] * (l \div s[2]), l)

\* Cross-cancelling product: no intermediate exceeds the result's terms.
RatMul(r, s) ==
    IF r[1] = 0 \/ s[1] = 0 THEN RatZero
    ELSE LET g1 == GCD(Abs(r[1]), s[2])
             g2 == GCD(Abs(s[1]), r[2])
         IN  <<(r[1] \div g1) * (s[1] \div g2), (r[2] \div g2) * (s[2] \div g1)>>

\* 1 / r, r # 0
RatInv(r) == IF r[1] < 0 THEN <<-r[2], -r[1]>> ELSE <<r[2], r[1]>>

\* a/b < c/d for a, c >= 0 and b, d > 0, by continued fractions (no products)
RECURSIVE CFLess(_, _, _, _)
CFLess(a, b, c, d) ==
    LET qa == a \div b
        qc == c \div d
        ra == a % b
        rc == c % d
    IN  IF qa # qc THEN qa < qc
        ELSE IF rc = 0 THEN FALSE
        ELSE IF ra = 0 THEN TRUE
        ELSE CFLess(d, rc, b, ra)

RatLess(r, s) ==
    IF r[1] < 0 /\ s[1] >= 0 THEN TRUE
    ELSE IF r[1] >= 0 /\ s[1] < 0 THEN FALSE
    ELSE IF r[1] >= 0 THEN CFLess(r[1], r[2], s[1], s[2])
    ELSE CFLess(-s[1], s[2], -r[1], r[2])

RECURSIVE RatPow(_, _)
RatPow(r, k) ==
    IF k = 0 THEN RatOne
    ELSE IF k < 0 THEN RatPow(RatInv(r), -k)
    ELSE RatMul(r, RatPow(r, k - 1))

----------------------------------------------------------------------------
(* Float values.  kind "finite" is c + SUM coef * ln(q) over the pairs      *)
(* <<q, coef>> of t (q a positive rational # 1, coef # 0, one pair per q).  *)

Finite(c, t) == [kind |-> "finite", c |-> c, t |-> t]

Special(k) == [kind |-> k, c |-> RatZero, t |-> {}]

NaN == Special("nan")

NegInf == Special("-inf")

PosInf == Special("+inf")

\* util.tf_dtype(dtype='float').min
MinFloat == Special("min_float")

Num(r) == Finite(r, {})

Zero == Num(RatZero)

One == Num(RatOne)

IsNum(v) == v.kind = "finite" /\ v.t = {}

Keys(t) == {e[1] : e \in t}

Coef(t, q) == IF \E e \in t : e[1] = q THEN (CHOOSE e \in t : e[1] = q)[2] ELSE RatZero

TermsAdd(t, u) ==
    {e \in {<<q, RatAdd(Coef(t, q), Coef(u, q))>> : q \in Keys(t) \cup Keys(u)} :
        e[2] # RatZero}

TermsScale(r, t) == IF r = RatZero THEN {} ELSE {<<e[1], RatMul(r, e[2])>> : e \in t}

\* -v
Neg(v) ==
    CASE v.kind = "finite" -> Finite(RatNeg(v.c), TermsScale(<<-1, 1>>, v.t))
      [] v.kind = "-inf" -> PosInf
      [] v.kind = "+inf" -> NegInf
      [] v.kind = "min_float" -> Special("max_float")
      [] v.kind = "max_float" -> MinFloat
      [] OTHER -> NaN

\* v + w
Add(v, w) ==
    CASE v.kind = "nan" \/ w.kind = "nan" -> NaN
      [] v.kind = "-inf" -> IF w.kind = "+inf" THEN NaN ELSE NegInf
      [] v.kind = "+inf" -> IF w.kind = "-inf" THEN NaN ELSE PosInf
      [] w.kind \in {"-inf", "+inf"} -> w
      [] v.kind = "finite" /\ w.kind = "finite" ->
            Finite(RatAdd(v.c, w.c), TermsAdd(v.t, w.t))
      [] v.kind = "finite" -> w                  \* absorbed by +-float.max
      [] w.kind = "finite" -> v
      [] v.kind = w.kind -> IF v.kind = "min_float" THEN NegInf ELSE PosInf
      [] OTHER -> Zero                           \* float.min + float.max

Sub(v, w) == Add(v, Neg(w))

\* r * v for a plain number r
Scale(r, v) ==
    CASE v.kind = "nan" -> NaN
      [] v.kind = "finite" -> Finite(RatMul(r, v.c), TermsScale(r, v.t))
      [] r = RatZero -> IF v.kind \in {"-inf", "+inf"} THEN NaN ELSE Zero
      [] r[1] > 0 -> v
      [] OTHER -> Neg(v)

\* v * w where at least one factor is a plain number (probabilities * logits)
Mul(v, w) ==
    CASE v.kind = "nan" \/ w.kind = "nan" -> NaN
      [] IsNum(v) -> Scale(v.c, w)
      [] OTHER -> Scale(w.c, v)

\* tf.log of a plain number
Log(v) ==
    CASE v.kind # "finite" -> NaN
      [] v.c[1] < 0 -> NaN
      [] v.c[1] = 0 -> NegInf
      [] v.c = RatOne -> Zero
      [] OTHER -> Finite(RatZero, {<<v.c, RatOne>>})

RECURSIVE ExpTerms(_)
ExpTerms(t) ==
    IF t = {} THEN RatOne
    ELSE LET e == CHOOSE f \in t : TRUE
         IN  RatMul(RatPow(e[1], e[2][1]), ExpTerms(t \ {e}))

\* exp of a value SUM k_i * ln(q_i) with whole k_i; exp underflows to 0 at
\* float.min and at -inf
Exp(v) ==
    CASE v.kind \in {"min_float", "-inf"} -> Zero
      [] v.kind = "nan" -> NaN
      [] v.kind \in {"+inf", "max_float"} -> PosInf
      [] v.kind = "finite" /\ v.c = RatZero -> Num(ExpTerms(v.t))

RECURSIVE LCMDen(_)
LCMDen(t) ==
    IF t = {} THEN 1
    ELSE LET e == CHOOSE f \in t : TRUE
             r == LCMDen(t \ {e})
         IN  (r \div GCD(r, e[2][2])) * e[2][2]

Rank(v) ==
    CASE v.kind = "-inf" -> 0
      [] v.kind = "min_float" -> 1
      [] v.kind = "finite" -> 2
      [] v.kind = "max_float" -> 3
      [] OTHER -> 4

\* v < w (false when either is nan).  Two finite values that differ by
\* logarithms only, v - w = SUM c_i * ln(q_i), are compared through
\* PROD q_i^(k c_i) over c_i > 0 against PROD q_i^(-k c_i) over c_i < 0, with k
\* clearing the denominators of the c_i.
Less(v, w) ==
    CASE v.kind = "nan" \/ w.kind = "nan" -> FALSE
      [] IsNum(v) /\ IsNum(w) -> RatLess(v.c, w.c)
      [] v.kind = "finite" /\ w.kind = "finite" /\ v.c = w.c ->
            LET d == TermsAdd(v.t, TermsScale(<<-1, 1>>, w.t))
                k == LCMDen(d)
                up == {e \in TermsScale(<<k, 1>>, d) : e[2][1] > 0}
                down == {e \in TermsScale(<<-k, 1>>, d) : e[2][1] > 0}
            IN  RatLess(ExpTerms(up), ExpTerms(down))
      [] v.kind # "finite" \/ w.kind # "finite" -> Rank(v) < Rank(w)

\* tf.maximum / tf.minimum
Maximum(v, w) == IF v.kind = "nan" \/ w.kind = "nan" THEN NaN ELSE IF Less(v, w) THEN w ELSE v

Minimum(v, w) == IF v.kind = "nan" \/ w.kind = "nan" THEN NaN ELSE IF Less(w, v) THEN w ELSE v

RECURSIVE ReduceSum(_)
ReduceSum(s) == IF s = <<>> THEN Zero ELSE Add(Head(s), ReduceSum(Tail(s)))

RECURSIVE ArgMaxScan(_, _, _)
ArgMaxScan(s, i, best) ==
    IF i > Len(s) THEN best
    ELSE ArgMaxScan(s, i + 1, IF Less(s[best], s[i]) THEN i ELSE best)

\* tf.argmax over the last axis, as a 0-based action: the first index holding
\* the greatest entry
ArgMax(s) == ArgMaxScan(s, 2, 1) - 1

RECURSIVE ReduceMaxScan(_, _, _)
ReduceMaxScan(s, i, best) ==
    IF i > Len(s) THEN best
    ELSE ReduceMaxScan(s, i + 1, Maximum(best, s[i]))

ReduceMax(s) == ReduceMaxScan(s, 2, s[1])

\* tf.math.reduce_mean
ReduceMean(s) == Scale(<<1, Len(s)>>, ReduceSum(s))

\* v / w for a plain number w; x / 0 is +-inf, 0 / 0 is nan
Div(v, w) ==
    IF w.c = RatZero
    THEN IF v = Zero \/ v.kind = "nan" THEN NaN
         ELSE IF Less(v, Zero) THEN NegInf ELSE PosInf
    ELSE Scale(RatInv(w.c), v)

\* tf.nn.softmax: exp(s - max) / sum(exp(s - max))
Softmax(s) ==
    LET m == ReduceMax(s)
        e == [i \in 1..Len(s) |-> Exp(Sub(s[i], m))]
        z == ReduceSum(e)
    IN  [i \in 1..Len(s) |-> Div(e[i], z)]

\* tf.reduce_logsumexp: log(sum(exp(s))).  When every entry is float.min the
\* library's max + log(sum(exp(s - max))) is float.min again (log(n) is absorbed).
ReduceLogSumExp(s) ==
    LET m == ReduceMax(s)
    IN  IF m.kind = "finite"
        THEN Log(ReduceSum([i \in 1..Len(s) |-> Exp(s[i])]))
        ELSE Add(m, Log(ReduceSum([i \in 1..Len(s) |-> Exp(Sub(s[i], m))])))

\* tf.where(condition, x, y), elementwise
Where(c, a, b) == [i \in 1..Len(a) |-> IF c[i] THEN a[i] ELSE b[i]]

----------------------------------------------------------------------------
(* tensorforce/core/distributions/categorical.py                            *)

\* action_spec['num_values']; actions are 0 .. NumValues - 1
NumValues == 3

Actions == 0..(NumValues - 1)

Index == 1..NumValues

\* 1 / util.epsilon
EpsilonInv == 1000000

\* tf.constant(value=util.epsilon)
epsilon == Num(<<1, EpsilonInv>>)

\* What self.deviations.apply(x) can hold for one action: ln(w).  The largest
\* weight puts the probabilities of the others below epsilon.
Weights == {1, 2, EpsilonInv + 1}

DeviationOutputs == {Log(Num(<<w, 1>>)) : w \in Weights}

\* What self.value.apply(x) holds (used when infer_states_value is false)
ValueOutputs == {One}

\* A mask allows at least one action.
Masks == {m \in [Index -> BOOLEAN] : \E i \in Index : m[i]}

Temperatures == {Zero, Num(<<1, 2 * EpsilonInv>>), One, Num(<<2, 1>>)}

\* A uniform draw is u = exp(-1/k), k in NoiseDraws: -log(u) = 1/k
NoiseDraws == {1, 3}

NegLogUniform(k) == Num(<<1, k>>)

min_float(s) == [i \in 1..Len(s) |-> MinFloat]

MaskedActionValuesUnmasked(action_values, m) == action_values

\* tf.where(condition=mask, x=action_values, y=min_float)
MaskedActionValues(action_values, m) == Where(m, action_values, min_float(action_values))

NormalizedLogitsMinimum(probabilities) ==
    [i \in 1..Len(probabilities) |-> Log(Minimum(probabilities[i], epsilon))]

NormalizedLogitsUnclamped(probabilities) ==
    [i \in 1..Len(probabilities) |-> Log(probabilities[i])]

\* logits = tf.log(x=tf.maximum(x=probabilities, y=epsilon))
NormalizedLogits(probabilities) ==
    [i \in 1..Len(probabilities) |-> Log(Maximum(probabilities[i], epsilon))]

\* tf_parametrize(x, mask) -> (logits, probabilities, states_value, action_values);
\* xs holds the two linear layers' outputs for the embedding x
tf_parametrize(xs, m) ==
    LET deviations == xs.deviations
        action_values ==
            IF infer_states_value
            THEN MaskedActionValues(deviations, m)
            ELSE MaskedActionValues(
                    [i \in Index |-> Sub(Add(xs.value, deviations[i]), ReduceMean(deviations))],
                    m)
        states_value ==
            IF infer_states_value THEN ReduceLogSumExp(action_values) ELSE xs.value
        probabilities == Softmax(action_values)
        logits == NormalizedLogits(probabilities)
    IN  <<logits, probabilities, states_value, action_values>>

\* tf_sample(parameters, temperature); uniform holds the draw of
\* tf.random.uniform, one per action
tf_sample(params, temperature, uniform) ==
    LET logits == params[1]
        probabilities == params[2]
        definite == ArgMax(logits)
        tempered ==
            [i \in Index |->
                IF Less(probabilities[i], epsilon) THEN MinFloat
                ELSE Div(logits[i], temperature)]
        gumbel_distribution == [i \in Index |-> Neg(Log(NegLogUniform(uniform[i])))]
        sampled == ArgMax([i \in Index |-> Add(tempered[i], gumbel_distribution[i])])
    IN  IF Less(temperature, epsilon) THEN definite ELSE sampled

tf_log_probability_of_probabilities(params, action) == params[2][action + 1]

\* tf_log_probability(parameters, action): batch_gather of logits
tf_log_probability(params, action) == params[1][action + 1]

\* tf_entropy(parameters)
tf_entropy(params) ==
    Neg(ReduceSum([i \in Index |-> Mul(params[2][i], params[1][i])]))

\* tf_kl_divergence(parameters1, parameters2)
tf_kl_divergence(params1, params2) ==
    LET log_prob_ratio == [i \in Index |-> Sub(params1[1][i], params2[1][i])]
    IN  ReduceSum([i \in Index |-> Mul(params1[2][i], log_prob_ratio[i])])

\* tf_action_value(parameters, action); action = -1 stands for action=None
tf_action_value(params, action) ==
    IF action = -1 THEN params[4] ELSE params[4][action + 1]

\* tf_states_value(parameters)
tf_states_value(params) == params[3]

LayerOutputs == [deviations : [Index -> DeviationOutputs], value : ValueOutputs]

\* Layer outputs after an update that moved the deviation of one action
Updated(xs) ==
    {[xs EXCEPT !.deviations[i] = d] : i \in Index, d \in DeviationOutputs}

UnityIdle ==
    /\ pc = "idle"
    /\ cli = <<>>
    /\ error = ""
    /\ network_spec = ""
    /\ calls = <<>>
    /\ agent_kwargs = ""
    /\ runner = <<>>
    /\ environment = <<>>
    /\ logged = <<>>
    /\ state = 0
    /\ terminal = FALSE
    /\ acted_on = 0

\* Categorical.__init__
CatInit ==
    /\ infer_states_value \in BOOLEAN
    /\ x = <<>>
    /\ mask = <<>>
    /\ parameters = <<>>
    /\ op = "init"
    /\ args = <<>>
    /\ result = <<>>
    /\ UnityIdle

\* tf_parametrize depends on nothing but its arguments and the methods below
\* change nothing, so one parametrization followed by one method call reaches
\* every (parameters, call, result) a longer run can.
Parametrize ==
    /\ op = "init"
    /\ \E xs \in LayerOutputs, m \in Masks :
        /\ x' = xs
        /\ mask' = m
        /\ parameters' = tf_parametrize(xs, m)
        /\ result' = tf_parametrize(xs, m)
    /\ op' = "parametrize"
    /\ args' = <<>>
    /\ UNCHANGED infer_states_value
    /\ UNCHANGED unityVars

Sample ==
    /\ op = "parametrize"
    /\ \E temperature \in Temperatures, uniform \in [Index -> NoiseDraws] :
        /\ args' = [temperature |-> temperature, uniform |-> uniform]
        /\ result' = tf_sample(parameters, temperature, uniform)
    /\ op' = "sample"
    /\ UNCHANGED <<infer_states_value, x, mask, parameters>>
    /\ UNCHANGED unityVars

LogProbability ==
    /\ op = "parametrize"
    /\ \E action \in Actions :
        /\ args' = [action |-> action]
        /\ result' = tf_log_probability(parameters, action)
    /\ op' = "log_probability"
    /\ UNCHANGED <<infer_states_value, x, mask, parameters>>
    /\ UNCHANGED unityVars

Entropy ==
    /\ op = "parametrize"
    /\ args' = <<>>
    /\ result' = tf_entropy(parameters)
    /\ op' = "entropy"
    /\ UNCHANGED <<infer_states_value, x, mask, parameters>>
    /\ UNCHANGED unityVars

\* The second parametrization is the same one, or that of the same embedding
\* and mask after an update of the layers.
KlDivergence ==
    /\ op = "parametrize"
    /\ \E other \in {parameters} \cup {tf_parametrize(xs, mask) : xs \in Updated(x)} :
        /\ args' = [parameters1 |-> parameters, parameters2 |-> other]
        /\ result' = tf_kl_divergence(parameters, other)
    /\ op' = "kl_divergence"
    /\ UNCHANGED <<infer_states_value, x, mask, parameters>>
    /\ UNCHANGED unityVars

ActionValue ==
    /\ op = "parametrize"
    /\ \E action \in Actions \cup {-1} :
        /\ args' = [action |-> action]
        /\ result' = tf_action_value(parameters, action)
    /\ op' = "action_value"
    /\ UNCHANGED <<infer_states_value, x, mask, parameters>>
    /\ UNCHANGED unityVars

StatesValue ==
    /\ op = "parametrize"
    /\ args' = <<>>
    /\ result' = tf_states_value(parameters)
    /\ op' = "states_value"
    /\ UNCHANGED <<infer_states_value, x, mask, parameters>>
    /\ UNCHANGED unityVars

CatNext ==
    \/ Parametrize
    \/ Sample
    \/ LogProbability
    \/ Entropy
    \/ KlDivergence
    \/ ActionValue
    \/ StatesValue

SpecCategorical == CatInit /\ [][CatNext]_vars

----------------------------------------------------------------------------
(* examples/unity.py: main()                                                *)

\* runner.run(timesteps=6000000, ...)
TrainTimesteps == 6000000

\* episode_finished logs when r.episode % 100 == 0
LogEvery == 100

\* r.episode_rewards[-500:] and the divisor 500
Window500 == 500

\* r.episode_rewards[-100:] and the divisor 100
Window100 == 100

\* Greatest reward an episode yields
MaxReward == 2

\* Greatest number of environment.execute calls of the evaluation loop
MaxEvalSteps == 3

\* -e/--episodes; -1 stands for None (the default)
EpisodeArgs == {-1, 1, 100, 500}

\* Timesteps one episode of the environment lasts
EpisodeTimesteps == {10000, 60000}

NoAgentConfig == "No agent configuration provided."

NoRunner == [episode |-> 0, timestep |-> 0, episode_rewards |-> <<>>]

NothingLogged ==
    [episode |-> 0, episode_reward |-> 0, average500 |-> RatZero, average100 |-> RatZero]

CatIdle ==
    /\ infer_states_value = TRUE
    /\ x = <<>>
    /\ mask = <<>>
    /\ parameters = <<>>
    /\ op = "idle"
    /\ args = <<>>
    /\ result = <<>>

\* main() after parser.parse_args()
UnityInit ==
    /\ pc = "agent_config"
    /\ cli \in [agent_config : {"None", "agent.json"},
                network_spec : {"None", "network.json"},
                episodes : EpisodeArgs]
    /\ error = ""
    /\ network_spec = ""
    /\ calls = <<>>
    /\ agent_kwargs = ""
    /\ runner = NoRunner
    /\ environment \in [episode_reward : 0..MaxReward, episode_timesteps : EpisodeTimesteps]
    /\ logged = NothingLogged
    /\ state = 0
    /\ terminal = FALSE
    /\ acted_on = 0
    /\ CatIdle

AgentConfigMissingSwapped(c) == c.network_spec = "None"

\* if args.agent_config is not None: ... else: raise
AgentConfigMissing(c) == c.agent_config = "None"

\* lines 42-46
LoadAgentConfig ==
    /\ pc = "agent_config"
    /\ IF AgentConfigMissing(cli)
       THEN pc' = "raised" /\ error' = NoAgentConfig
       ELSE pc' = "network_spec" /\ error' = error
    /\ UNCHANGED <<cli, network_spec, calls, agent_kwargs, runner, environment, logged,
                   state, terminal, acted_on>>
    /\ UNCHANGED catVars

\* lines 48-58: network_spec, states_preprocessing, logger.info("Start training")
LoadNetworkSpec ==
    /\ pc = "network_spec"
    /\ network_spec' = IF cli.network_spec # "None" THEN cli.network_spec ELSE "None"
    /\ calls' = Append(calls, "logger.info:Start training")
    /\ pc' = "environment"
    /\ UNCHANGED <<cli, error, agent_kwargs, runner, environment, logged, state, terminal,
                   acted_on>>
    /\ UNCHANGED catVars

\* environment = UnityEnv(args.env, worker_id=2)
MakeEnvironment ==
    /\ pc = "environment"
    /\ calls' = Append(calls, "UnityEnv")
    /\ pc' = "agent"
    /\ UNCHANGED <<cli, error, network_spec, agent_kwargs, runner, environment, logged,
                   state, terminal, acted_on>>
    /\ UNCHANGED catVars

\* agent = Agent.from_spec(spec=agent_config, kwargs=dict(..., network=network_spec))
MakeAgent ==
    /\ pc = "agent"
    /\ calls' = Append(calls, "Agent.from_spec")
    /\ agent_kwargs' = network_spec
    /\ pc' = "runner"
    /\ UNCHANGED <<cli, error, network_spec, runner, environment, logged, state, terminal,
                   acted_on>>
    /\ UNCHANGED catVars

\* runner = Runner(agent=agent, environment=environment, repeat_actions=1)
MakeRunner ==
    /\ pc = "runner"
    /\ calls' = Append(calls, "Runner")
    /\ runner' = NoRunner
    /\ pc' = "run"
    /\ UNCHANGED <<cli, error, network_spec, agent_kwargs, environment, logged, state,
                   terminal, acted_on>>
    /\ UNCHANGED catVars

\* runner.run(timesteps=6000000, num_episodes=args.episodes, ...) is called
CallRun ==
    /\ pc = "run"
    /\ calls' = Append(calls, "runner.run")
    /\ pc' = "running"
    /\ UNCHANGED <<cli, error, network_spec, agent_kwargs, runner, environment, logged,
                   state, terminal, acted_on>>
    /\ UNCHANGED catVars

RECURSIVE SumRange(_, _, _)
SumRange(s, lo, hi) ==
    IF lo > hi THEN 0
    ELSE IF lo = hi THEN s[lo]
    ELSE LET mid == (lo + hi) \div 2
         IN  SumRange(s, lo, mid) + SumRange(s, mid + 1, hi)

\* sum(s)
Sum(s) == SumRange(s, 1, Len(s))

\* s[-n:]
LastN(s, n) == IF Len(s) <= n THEN s ELSE SubSeq(s, Len(s) - n + 1, Len(s))

\* def episode_finished(r): what it logs, or the previous log when it logs nothing
episode_finished(r, previous) ==
    IF r.episode % LogEvery = 0
    THEN [episode |-> r.episode,
          episode_reward |-> r.episode_rewards[Len(r.episode_rewards)],
          average500 |-> Rat(Sum(LastN(r.episode_rewards, Window500)), Window500),
          average100 |-> Rat(Sum(LastN(r.episode_rewards, Window100)), Window100)]
    ELSE previous

\* Runner.run's stop test after an episode
RunStops(r) ==
    \/ cli.episodes # -1 /\ r.episode >= cli.episodes
    \/ r.timestep >= TrainTimesteps

\* Runner.run: one episode, its bookkeeping and the episode_finished callback;
\* the stop test follows the callback, so a run holds at least one episode
RunEpisode ==
    /\ pc = "running"
    /\ ~RunStops(runner) \/ runner.episode = 0
    /\ LET r == [episode |-> runner.episode + 1,
                 timestep |-> runner.timestep + environment.episode_timesteps,
                 episode_rewards |-> Append(runner.episode_rewards,
                                            environment.episode_reward)]
       IN  /\ runner' = r
           /\ logged' = episode_finished(r, logged)
    /\ UNCHANGED <<pc, cli, error, network_spec, calls, agent_kwargs, environment, state,
                   terminal, acted_on>>
    /\ UNCHANGED catVars

\* Runner.run returns
RunReturns ==
    /\ pc = "running"
    /\ runner.episode > 0
    /\ RunStops(runner)
    /\ calls' = Append(calls, "runner.run returned")
    /\ pc' = "reset"
    /\ UNCHANGED <<cli, error, network_spec, agent_kwargs, runner, environment, logged,
                   state, terminal, acted_on>>
    /\ UNCHANGED catVars

\* terminal = False; state = environment.reset()
Reset ==
    /\ pc = "reset"
    /\ terminal' = FALSE
    /\ state' = 1
    /\ calls' = Append(calls, "environment.reset")
    /\ pc' = "while"
    /\ UNCHANGED <<cli, error, network_spec, agent_kwargs, runner, environment, logged,
                   acted_on>>
    /\ UNCHANGED catVars

LoopContinuesInverted(t) == t

\* while not terminal:
LoopContinues(t) == ~t

\* action = agent.act(state)
EvalAct ==
    /\ pc = "while"
    /\ LoopContinues(terminal)
    /\ acted_on' = state
    /\ calls' = Append(calls, "agent.act")
    /\ pc' = "execute"
    /\ UNCHANGED <<cli, error, network_spec, agent_kwargs, runner, environment, logged,
                   state, terminal>>
    /\ UNCHANGED catVars

\* state, terminal, reward = environment.execute(action); states are numbered
\* in the order the environment hands them out
EvalExecute ==
    /\ pc = "execute"
    /\ state <= MaxEvalSteps
    /\ \E t \in BOOLEAN : terminal' = t
    /\ state' = state + 1
    /\ calls' = Append(calls, "environment.execute")
    /\ pc' = "while"
    /\ UNCHANGED <<cli, error, network_spec, agent_kwargs, runner, environment, logged,
                   acted_on>>
    /\ UNCHANGED catVars

\* runner.close()
Close ==
    /\ pc = "while"
    /\ ~LoopContinues(terminal)
    /\ calls' = Append(calls, "runner.close")
    /\ pc' = "done"
    /\ UNCHANGED <<cli, error, network_spec, agent_kwargs, runner, environment, logged,
                   state, terminal, acted_on>>
    /\ UNCHANGED catVars

UnityNext ==
    \/ LoadAgentConfig
    \/ LoadNetworkSpec
    \/ MakeEnvironment
    \/ MakeAgent
    \/ MakeRunner
    \/ CallRun
    \/ RunEpisode
    \/ RunReturns
    \/ Reset
    \/ EvalAct
    \/ EvalExecute
    \/ Close

SpecUnity == UnityInit /\ [][UnityNext]_vars

----------------------------------------------------------------------------
(* Claims about Categorical, checked under SpecCategorical                  *)

Masked == {i \in Index : ~mask[i]}

BelowEpsilon == {i \in Index : mask[i] /\ Less(parameters[2][i], epsilon)}

\* The lowest action whose probability is the greatest
MaxLikelihoodAction(probabilities) ==
    CHOOSE a \in Actions :
        /\ \A b \in Actions : ~RatLess(probabilities[a + 1].c, probabilities[b + 1].c)
        /\ \A b \in 0..(a - 1) : RatLess(probabilities[b + 1].c, probabilities[a + 1].c)

\* C1: with temperature < epsilon, tf_sample returns the lowest action of
\* greatest probability, whatever the uniform draw is.
C1_DeterministicSample ==
    (op = "sample" /\ Less(args.temperature, epsilon)) =>
        /\ result = MaxLikelihoodAction(parameters[2])
        /\ \A uniform \in [Index -> NoiseDraws] :
              tf_sample(parameters, args.temperature, uniform) = result

C1_Witness ==
    /\ op = "sample"
    /\ Less(args.temperature, epsilon)
    /\ args.temperature # Zero
    /\ Masked # {}
    /\ result = 1
    /\ parameters[2][2] = parameters[2][3]
    /\ \E i \in Index : args.uniform[i] # args.uniform[1]

\* C2 as stated: tf_log_probability returns the exact logarithm of
\* probabilities[action] for every action, masked and below-epsilon ones included.
C2_ExactLogProbability ==
    op = "log_probability" => result = Log(parameters[2][args.action + 1])

\* C2 amended: tf_log_probability returns log(max(probabilities[action], epsilon)):
\* log(probabilities[action]) when that probability is at least epsilon, and
\* log(epsilon) for a masked action or a probability below epsilon.
C2_ClampedLogProbability ==
    op = "log_probability" =>
        LET p == parameters[2][args.action + 1]
        IN  /\ result = Log(Maximum(p, epsilon))
            /\ ~Less(p, epsilon) => result = Log(p)
            /\ Less(p, epsilon) => result = Log(epsilon)

C2_Witness ==
    /\ op = "log_probability"
    /\ (args.action + 1) \in Masked
    /\ BelowEpsilon # {}
    /\ result = Log(epsilon)

\* C3: tf_entropy is minus the sum over all actions of probabilities[a] times
\* tf_log_probability(parameters, a), and an action of probability 0
\* contributes exactly 0.
C3_EntropyFromLogProbabilities ==
    op = "entropy" =>
        LET term(a) == Mul(parameters[2][a + 1], tf_log_probability(parameters, a))
        IN  /\ result = Neg(ReduceSum([i \in Index |-> term(i - 1)]))
            /\ \A a \in Actions : parameters[2][a + 1] = Zero => term(a) = Zero

C3_Witness ==
    /\ op = "entropy"
    /\ Masked # {}
    /\ \E i \in Index : parameters[2][i] = Zero
    /\ result # Zero
    /\ result.kind = "finite"

\* C4: tf_kl_divergence of a parametrization with itself is exactly 0.
C4_KlSelfZero ==
    (/\ op = "kl_divergence"
     /\ args.parameters1[1] = args.parameters2[1]
     /\ args.parameters1[2] = args.parameters2[2]) => result = Zero

C4_Witness ==
    /\ op = "kl_divergence"
    /\ args.parameters1 = args.parameters2
    /\ Masked # {}
    /\ BelowEpsilon # {}
    /\ result = Zero

----------------------------------------------------------------------------
(* Claims about examples/unity.py, checked under SpecUnity                  *)

Positions(fn) == {i \in 1..Len(calls) : calls[i] = fn}

\* C6: without an agent configuration main ends with TensorForceError("No agent
\* configuration provided.") before anything is constructed, logged as started
\* or run; a missing network specification alone never raises, and the agent
\* is then built with network=None.
C6_MissingAgentConfig ==
    /\ (cli.agent_config = "None" /\ pc # "agent_config") =>
          /\ pc = "raised"
          /\ error = NoAgentConfig
          /\ calls = <<>>
          /\ runner = NoRunner
    /\ pc = "raised" => cli.agent_config = "None"
    /\ (cli.agent_config # "None" /\ cli.network_spec = "None") =>
          /\ error = ""
          /\ pc \notin {"agent_config", "network_spec"} => network_spec = "None"
          /\ Positions("Agent.from_spec") # {} => agent_kwargs = "None"

C6_Witness ==
    /\ pc = "raised"
    /\ error = NoAgentConfig
    /\ cli.agent_config = "None"
    /\ cli.network_spec = "None"

\* arithmetic mean of a non-empty list, as a rational
Mean(s) == Rat(Sum(s), Len(s))

\* C7 as stated: what episode_finished logs as the average of the last 500
\* (100) rewards is the arithmetic mean of the last 500 (100) entries of
\* r.episode_rewards, or of all entries when there are fewer.
C7_LoggedAveragesAreMeans ==
    logged.episode > 0 =>
        LET seen == SubSeq(runner.episode_rewards, 1, logged.episode)
        IN  /\ logged.average500 = Mean(LastN(seen, Window500))
            /\ logged.average100 = Mean(LastN(seen, Window100))

\* C8: runner.close() is called at most once, and only after runner.run has
\* returned, then environment.reset was called, then the evaluation loop got
\* terminal=True from its last environment.execute; every environment.execute
\* directly follows an agent.act on the latest state; while no execute has
\* reported terminal, close is not reached.
C8_CloseAfterEvaluation ==
    /\ Cardinality(Positions("runner.close")) <= 1
    /\ \A c \in Positions("runner.close") :
          /\ terminal
          /\ c = Len(calls)
          /\ calls[c - 1] = "environment.execute"
          /\ \E r \in Positions("runner.run returned"), s \in Positions("environment.reset") :
                /\ r < s
                /\ s < c - 1
                /\ Positions("environment.reset") = {s}
    /\ \A e \in Positions("environment.execute") : calls[e - 1] = "agent.act"
    /\ \A a \in Positions("agent.act") :
          calls[a - 1] \in {"environment.reset", "environment.execute"}
    /\ pc = "execute" => acted_on = state /\ calls[Len(calls)] = "agent.act"
    /\ pc = "done" <=> Positions("runner.close") # {}
    /\ ~terminal => Positions("runner.close") = {}

C8_Witness ==
    /\ pc = "done"
    /\ Positions("runner.close") = {Len(calls)}
    /\ Cardinality(Positions("environment.execute")) >= 2
    /\ terminal

====
